---------------------------- MODULE Spec2Model ----------------------------
(***************************************************************************)
(* BIP340 Taproot Schnorr signatures of k256 (src/k256/src/schnorr.rs),    *)
(* modelled over a scaled-down secp256k1: the curve y^2 = x^3 + 7 over     *)
(* F_43, whose group has prime order 31 < 43, like secp256k1 it has no     *)
(* point with x = 0 and p = 3 (mod 4).  A "32-byte" string is a sequence   *)
(* of FieldLen scaled bytes of ByteBits bits each, a "64-byte" signature   *)
(* a sequence of 2 * FieldLen of them.                                     *)
(***************************************************************************)
EXTENDS Integers, Sequences, FiniteSets, TLC

VARIABLES
    sk,                 \* the Result<SigningKey> the program holds (or NoValue)
    vk,                 \* the Result<VerifyingKey> the program holds (or NoValue)
    sig,                \* the Result<Signature> the program holds (or NoValue)
    out,                \* the last call: its name, arguments and returned value
    identity_xy,        \* the coordinates the backend gives the point at infinity
    call                \* the in-flight try_sign_raw_digest invocations (per thread)

vars == <<sk, vk, sig, out, identity_xy, call>>

---------------------------------------------------------------------------
(* Sizes and curve parameters (scaled).                                    *)

\* bits of one scaled byte
ByteBits == 3
\* number of scaled bytes of a FieldBytes ("32")
FieldLen == 2
\* field modulus p
P == 43
\* group order n
N == 31
\* curve equation constant b of y^2 = x^3 + b
CURVE_EQUATION_B == 7

ByteMod == 2 ^ ByteBits
SigLen == 2 * FieldLen
\* number of values a FieldBytes can hold ("2^256")
FieldSpace == ByteMod ^ FieldLen

\* bounds on the inputs drawn
MaxDigest == 3
MaxAux == 3
MaxJunkLen == 1
MaxConcDigest == 1
MaxConcAux == 1

---------------------------------------------------------------------------
(* Result / Option values.                                                 *)

Ok(v) == [kind |-> "Ok", val |-> v]
Err == [kind |-> "Err"]
Panic == [kind |-> "Panic"]
Some(v) == [kind |-> "Some", val |-> v]
None == [kind |-> "None"]
NoValue == [kind |-> "NoValue"]

IsOk(r) == r.kind = "Ok"
IsSome(o) == o.kind = "Some"

---------------------------------------------------------------------------
(* Byte strings, big endian.                                               *)

Byte == 0 .. (ByteMod - 1)

RECURSIVE BeInt(_)
BeInt(b) ==
    IF Len(b) = 0 THEN 0
    ELSE BeInt(SubSeq(b, 1, Len(b) - 1)) * ByteMod + b[Len(b)]

ToBe(v, len) ==
    [i \in 1 .. len |-> (v \div (ByteMod ^ (len - i))) % ByteMod]

BytesOfLen(len) == [1 .. len -> Byte]
FieldBytes == BytesOfLen(FieldLen)

\* a ^ b on bytes: bitwise xor over every bit of the operands
RECURSIVE BitXor(_, _)
BitXor(x, y) ==
    IF x = 0 /\ y = 0 THEN 0
    ELSE (((x % 2) + (y % 2)) % 2) + 2 * BitXor(x \div 2, y \div 2)

\* one output byte per index of the FieldBytes arguments
xor(a, b) == [i \in 1 .. Len(a) |-> BitXor(a[i], b[i])]

---------------------------------------------------------------------------
(* SHA-256 (scaled): the state is the data absorbed so far, finalize       *)
(* compresses it to a FieldBytes.                                          *)

\* the compression of data[i ..] into the chaining value h
RECURSIVE Compress(_, _, _)
Compress(h, data, i) ==
    IF i > Len(data) THEN h
    ELSE LET x == h + data[i] + 1
         IN  Compress((x * x * 5 + h * 3 + data[i] * 11 + 17) % FieldSpace, data, i + 1)

Sha256_new == << >>
Sha256_update(st, data) == st \o data
Sha256_finalize(st) == ToBe(Compress(Len(st) + 9, st, 1), FieldLen)
Sha256_digest(data) == Sha256_finalize(Sha256_update(Sha256_new, data))

AUX_TAG == <<1, 0>>
NONCE_TAG == <<2, 0, 5>>
CHALLENGE_TAG == <<3, 7, 1, 1>>

tagged_hash(tag) ==
    LET tag_hash == Sha256_digest(tag)
    IN  Sha256_update(Sha256_update(Sha256_new, tag_hash), tag_hash)

---------------------------------------------------------------------------
(* Field elements modulo P.  A FieldElement is a representative in         *)
(* 0 .. FieldSpace - 1 of its residue; arithmetic may return a             *)
(* non-canonical one, and parity and equality read the representative as   *)
(* stored, so callers normalize first.                                     *)

FieldElement_ZERO == 0
FieldElement_normalize(fe) == fe % P
FieldElement_is_even(fe) == fe % 2 = 0
FieldElement_is_odd(fe) == fe % 2 = 1
FieldElement_to_bytes(fe) == ToBe(fe % P, FieldLen)
FieldElement_from_bytes(b) ==
    LET v == BeInt(b) IN IF v < P THEN Some(v) ELSE None

\* the representative arithmetic leaves behind: non-canonical when it fits
Lazy(v) == IF v + P < FieldSpace THEN v + P ELSE v

InvTable == [a \in 1 .. (P - 1) |-> CHOOSE b \in 1 .. (P - 1) : (a * b) % P = 1]

RECURSIVE FpPow(_, _)
FpPow(a, k) ==
    IF k = 0 THEN 1
    ELSE IF k % 2 = 0 THEN LET h == FpPow(a, k \div 2) IN (h * h) % P
    ELSE (a * FpPow(a, k - 1)) % P

\* square root for P = 3 (mod 4): the candidate a^((P+1)/4), if it squares to a
FieldElement_sqrt(a) ==
    LET c == FpPow(a % P, (P + 1) \div 4)
    IN  IF (c * c) % P = a % P THEN Some(c) ELSE None

---------------------------------------------------------------------------
(* Scalars modulo N, always canonical.                                     *)

Scalar_from_be_bytes_reduced(b) == BeInt(b) % N
Scalar_to_bytes(s) == ToBe(s, FieldLen)
Scalar_neg(s) == (N - s) % N
NonZeroScalar_new(s) == IF s = 0 THEN None ELSE Some(s)
\* TryFrom<&[u8]>: the length, then from_repr (below n) and non-zero
NonZeroScalar_try_from(b) ==
    IF Len(b) # FieldLen THEN Err
    ELSE LET v == BeInt(b) IN IF v = 0 \/ v >= N THEN Err ELSE Ok(v)

---------------------------------------------------------------------------
(* Group: ProjectivePoint as the canonical affine coordinates or infinity. *)

IDENTITY == [x |-> 0, y |-> 0, inf |-> TRUE]
GENERATOR == [x |-> 2, y |-> 12, inf |-> FALSE]

OnCurve(x, y) == (y * y) % P = (x * x * x + CURVE_EQUATION_B) % P

PointNeg(A) == IF A.inf THEN A ELSE [A EXCEPT !.y = (P - A.y) % P]

PointAdd(A, B) ==
    IF A.inf THEN B
    ELSE IF B.inf THEN A
    ELSE IF A.x = B.x /\ (A.y + B.y) % P = 0 THEN IDENTITY
    ELSE LET lam == IF A.x = B.x
                    THEN (3 * A.x * A.x * InvTable[(2 * A.y) % P]) % P
                    ELSE ((B.y - A.y + P) * InvTable[(B.x - A.x + P) % P]) % P
             x3 == (lam * lam + 2 * P - A.x - B.x) % P
             y3 == (lam * (A.x + P - x3) + P - A.y) % P
         IN  [x |-> x3, y |-> y3, inf |-> FALSE]

RECURSIVE PointMul(_, _)
PointMul(A, k) ==
    IF k = 0 THEN IDENTITY
    ELSE IF k % 2 = 0 THEN LET H == PointMul(A, k \div 2) IN PointAdd(H, H)
    ELSE PointAdd(A, PointMul(A, k - 1))

\* G * k, tabulated
GeneratorMul == [k \in 0 .. (N - 1) |-> PointMul(GENERATOR, k)]

\* the group, and A * k tabulated over it
CurvePoints == {GeneratorMul[k] : k \in 0 .. (N - 1)}
MulTable == [A \in CurvePoints |-> [k \in 0 .. (N - 1) |-> PointMul(A, k)]]
AddTable == [A \in CurvePoints |-> [B \in CurvePoints |-> PointAdd(A, B)]]

lincomb(A, k, B, l) == AddTable[MulTable[A][k]][MulTable[B][l]]

AffinePoint_IDENTITY ==
    [x |-> identity_xy[1], y |-> identity_xy[2], infinity |-> 1]

to_affine(A) ==
    IF A.inf THEN AffinePoint_IDENTITY
    ELSE [x |-> Lazy(A.x), y |-> Lazy(A.y), infinity |-> 0]

to_projective(a) ==
    IF a.infinity = 1 THEN IDENTITY
    ELSE [x |-> a.x % P, y |-> a.y % P, inf |-> FALSE]

\* equality of affine points is on the residues
AffinePoint_eq(a, b) ==
    /\ a.infinity = b.infinity
    /\ a.x % P = b.x % P
    /\ a.y % P = b.y % P

\* decompact = decompress with y_is_odd = 0
AffinePoint_decompact(x_bytes) ==
    LET fx == FieldElement_from_bytes(x_bytes)
    IN  IF ~IsSome(fx) THEN None
        ELSE LET x == fx.val
                 alpha == (x * x * x + CURVE_EQUATION_B) % P
                 beta == FieldElement_sqrt(alpha)
             IN  IF ~IsSome(beta) THEN None
                 ELSE LET y == IF FieldElement_is_odd(FieldElement_normalize(beta.val))
                               THEN (P - beta.val) % P
                               ELSE beta.val
                      IN  Some([x |-> x, y |-> FieldElement_normalize(y), infinity |-> 0])

PublicKey_from_affine(a) == IF a.infinity = 1 THEN Err ELSE Ok(a)

---------------------------------------------------------------------------
(* schnorr.rs: Signature.                                                  *)

\* from_bytes without the test of r against zero
Signature_from_bytes_zero_r(bytes) ==
    IF Len(bytes) # SigLen THEN Err
    ELSE LET r == FieldElement_from_bytes(SubSeq(bytes, 1, FieldLen))
         IN  IF ~IsSome(r) THEN Err
             ELSE LET s == NonZeroScalar_try_from(SubSeq(bytes, FieldLen + 1, SigLen))
                  IN  IF ~IsOk(s) THEN Err
                      ELSE Ok([bytes |-> bytes, r |-> r.val, s |-> s.val])

Signature_from_bytes(bytes) ==
    IF Len(bytes) # SigLen THEN Err
    ELSE LET r == FieldElement_from_bytes(SubSeq(bytes, 1, FieldLen))
         IN  IF ~IsSome(r) THEN Err
             ELSE IF r.val = FieldElement_ZERO THEN Err
             ELSE LET s == NonZeroScalar_try_from(SubSeq(bytes, FieldLen + 1, SigLen))
                  IN  IF ~IsOk(s) THEN Err
                      ELSE Ok([bytes |-> bytes, r |-> r.val, s |-> s.val])

Signature_as_bytes(self) == self.bytes

Signature_eq(a, b) == a.bytes = b.bytes

---------------------------------------------------------------------------
(* schnorr.rs: VerifyingKey.                                               *)

VerifyingKey_as_affine(self) == self.inner

VerifyingKey_to_bytes(self) == FieldElement_to_bytes(VerifyingKey_as_affine(self).x)

\* from_bytes keeping the point as arithmetic left it, whatever its Y
VerifyingKey_from_bytes_any_y(bytes) ==
    IF Len(bytes) # FieldLen THEN Panic
    ELSE LET maybe_affine_point == AffinePoint_decompact(bytes)
         IN  IF ~IsSome(maybe_affine_point) THEN Err
             ELSE LET inner == PublicKey_from_affine(
                                   to_affine(PointNeg(to_projective(maybe_affine_point.val))))
                  IN  IF ~IsOk(inner) THEN Err ELSE Ok([inner |-> inner.val])

VerifyingKey_from_bytes(bytes) ==
    IF Len(bytes) # FieldLen THEN Panic
    ELSE LET maybe_affine_point == AffinePoint_decompact(bytes)
         IN  IF ~IsSome(maybe_affine_point) THEN Err
             ELSE LET inner == PublicKey_from_affine(maybe_affine_point.val)
                  IN  IF ~IsOk(inner) THEN Err ELSE Ok([inner |-> inner.val])

VerifyingKey_eq(a, b) == AffinePoint_eq(a.inner, b.inner)

\* the challenge e of a signature's first half, a key's bytes and a digest
Challenge(r_bytes, pk_bytes, msg_digest) ==
    Scalar_from_be_bytes_reduced(
        Sha256_finalize(
            Sha256_update(
                Sha256_update(
                    Sha256_update(tagged_hash(CHALLENGE_TAG), r_bytes),
                    pk_bytes),
                msg_digest)))

\* verify_raw_digest without the parity test of R.y
VerifyingKey_verify_raw_digest_any_y(self, msg_digest, sg) ==
    LET r == sg.r
        s == sg.s
        e == Challenge(SubSeq(sg.bytes, 1, FieldLen), VerifyingKey_to_bytes(self), msg_digest)
        R == to_affine(lincomb(GENERATOR, s, to_projective(self.inner), Scalar_neg(e)))
    IN  IF FieldElement_normalize(R.x) # r
        THEN Err
        ELSE Ok(<< >>)

VerifyingKey_verify_raw_digest(self, msg_digest, sg) ==
    LET r == sg.r
        s == sg.s
        e == Challenge(SubSeq(sg.bytes, 1, FieldLen), VerifyingKey_to_bytes(self), msg_digest)
        R == to_affine(lincomb(GENERATOR, s, to_projective(self.inner), Scalar_neg(e)))
    IN  IF FieldElement_is_odd(FieldElement_normalize(R.y))
           \/ FieldElement_normalize(R.x) # r
        THEN Err
        ELSE Ok(<< >>)

---------------------------------------------------------------------------
(* schnorr.rs: SigningKey.                                                 *)

\* raw_from_bytes with the arguments of conditional_select exchanged
SigningKey_raw_from_bytes_swapped(bytes) ==
    LET trial_secret_key == NonZeroScalar_try_from(bytes)
    IN  IF ~IsOk(trial_secret_key) THEN Err
        ELSE LET even == FieldElement_is_even(
                             FieldElement_normalize(
                                 to_affine(GeneratorMul[trial_secret_key.val]).y))
                 secret_key == IF even THEN Scalar_neg(trial_secret_key.val)
                               ELSE trial_secret_key.val
                 verifying_point == to_affine(GeneratorMul[secret_key])
             IN  Ok(<<secret_key, verifying_point>>)

SigningKey_raw_from_bytes(bytes) ==
    LET trial_secret_key == NonZeroScalar_try_from(bytes)
    IN  IF ~IsOk(trial_secret_key) THEN Err
        ELSE LET even == FieldElement_is_even(
                             FieldElement_normalize(
                                 to_affine(GeneratorMul[trial_secret_key.val]).y))
                 secret_key == IF even THEN trial_secret_key.val
                               ELSE Scalar_neg(trial_secret_key.val)
                 verifying_point == to_affine(GeneratorMul[secret_key])
             IN  Ok(<<secret_key, verifying_point>>)

SigningKey_from_bytes(bytes) ==
    LET raw == SigningKey_raw_from_bytes(bytes)
    IN  IF ~IsOk(raw) THEN Err
        ELSE LET inner == PublicKey_from_affine(raw.val[2])
             IN  IF ~IsOk(inner) THEN Err
                 ELSE Ok([secret_key |-> raw.val[1],
                          verifying_key |-> [inner |-> inner.val]])

SigningKey_random(rng) == SigningKey_from_bytes(Scalar_to_bytes(rng)).val

\* to_bytes writing the scalar little endian
SigningKey_to_bytes_le(self) ==
    [i \in 1 .. FieldLen |-> Scalar_to_bytes(self.secret_key)[FieldLen + 1 - i]]

SigningKey_to_bytes(self) == Scalar_to_bytes(self.secret_key)

SigningKey_verifying_key(self) == self.verifying_key

\* try_sign_raw_digest, statement by statement
\* t without the secret key mixed in
Sign_t_unmasked(self, aux_rand) ==
    Sha256_finalize(Sha256_update(tagged_hash(AUX_TAG), aux_rand))

Sign_t(self, aux_rand) ==
    xor(Scalar_to_bytes(self.secret_key),
        Sha256_finalize(Sha256_update(tagged_hash(AUX_TAG), aux_rand)))

Sign_rand(self, t, msg_digest) ==
    Sha256_finalize(
        Sha256_update(
            Sha256_update(
                Sha256_update(tagged_hash(NONCE_TAG), t),
                FieldElement_to_bytes(VerifyingKey_as_affine(self.verifying_key).x)),
            msg_digest))

Sign_r(verifying_point) == FieldElement_normalize(verifying_point.x)

Sign_e(self, r, msg_digest) ==
    Challenge(FieldElement_to_bytes(r), VerifyingKey_to_bytes(self.verifying_key), msg_digest)

\* the response with the wrong sign of e * d
Sign_s_subtracts(self, secret_key, e) ==
    NonZeroScalar_new((secret_key + (N - 1) * e * self.secret_key) % N)

Sign_s(self, secret_key, e) ==
    NonZeroScalar_new((secret_key + e * self.secret_key) % N)

Sign_sig(r, s) ==
    [bytes |-> FieldElement_to_bytes(r) \o Scalar_to_bytes(s), r |-> r, s |-> s]

Sign_return(self, msg_digest, sg, debug) ==
    IF debug /\ ~IsOk(VerifyingKey_verify_raw_digest(self.verifying_key, msg_digest, sg))
    THEN Err
    ELSE Ok(sg)

SigningKey_try_sign_raw_digest(self, msg_digest, aux_rand, debug) ==
    LET t == Sign_t(self, aux_rand)
        rand == Sign_rand(self, t, msg_digest)
        nonce == SigningKey_raw_from_bytes(rand)
    IN  IF ~IsOk(nonce) THEN Err
        ELSE LET secret_key == nonce.val[1]
                 verifying_point == nonce.val[2]
                 r == Sign_r(verifying_point)
                 e == Sign_e(self, r, msg_digest)
                 s == Sign_s(self, secret_key, e)
             IN  IF ~IsSome(s) THEN Err
                 ELSE Sign_return(self, msg_digest, Sign_sig(r, s.val), debug)

---------------------------------------------------------------------------
(* The inputs the program is given.                                        *)

\* byte strings of a length other than len
WrongLengthBytes(len) ==
    UNION {[1 .. l -> {0, ByteMod - 1}] : l \in (0 .. (len + MaxJunkLen)) \ {len}}

KeyInputs == FieldBytes \cup WrongLengthBytes(FieldLen)
SignatureInputs == BytesOfLen(SigLen) \cup WrongLengthBytes(SigLen)
Digests == {ToBe((i * 21) % FieldSpace, FieldLen) : i \in 0 .. MaxDigest}
AuxRands == {ToBe((i * 13 + 1) % FieldSpace, FieldLen) : i \in 0 .. MaxAux}

ConcDigests == {ToBe((i * 21) % FieldSpace, FieldLen) : i \in 0 .. MaxConcDigest}
ConcAuxRands == {ToBe((i * 13 + 1) % FieldSpace, FieldLen) : i \in 0 .. MaxConcAux}

\* the conventions a backend may have for the coordinates of the point at infinity
IdentityConventions == {<<0, 0>>, <<1, 0>>}

Threads == {1, 2}
Idle == [pc |-> "idle"]

---------------------------------------------------------------------------
(* The program: a signing session parses (or draws) a signing key, takes   *)
(* its verifying key and signs; a verifying session parses a verifying key *)
(* and a signature; both verify and may serialize and parse again what     *)
(* they hold.  Each let-binding is made once; a panic ends the program.    *)

Called(op, args, res) == [op |-> op, args |-> args, res |-> res]

Running == out.res.kind # "Panic"

InitCommon ==
    /\ sk = NoValue
    /\ vk = NoValue
    /\ sig = NoValue
    /\ out = Called("start", << >>, NoValue)
    /\ call = [t \in Threads |-> Idle]

\* AffinePoint::IDENTITY of the backend: x = 0, y = 0
Init ==
    /\ InitCommon
    /\ identity_xy = <<0, 0>>

SkFromBytes ==
    /\ Running
    /\ sk = NoValue /\ vk = NoValue
    /\ \E bytes \in KeyInputs :
       /\ sk' = SigningKey_from_bytes(bytes)
       /\ out' = Called("SigningKey::from_bytes", <<bytes>>, sk')
       /\ UNCHANGED <<vk, sig, identity_xy, call>>

SkRandom ==
    /\ Running
    /\ sk = NoValue /\ vk = NoValue
    /\ \E rng \in 1 .. (N - 1) :
       /\ sk' = Ok(SigningKey_random(rng))
       /\ out' = Called("SigningKey::random", <<rng>>, sk')
       /\ UNCHANGED <<vk, sig, identity_xy, call>>

VkFromBytes ==
    /\ Running
    /\ sk = NoValue /\ vk = NoValue
    /\ \E bytes \in KeyInputs :
       /\ vk' = VerifyingKey_from_bytes(bytes)
       /\ out' = Called("VerifyingKey::from_bytes", <<bytes>>, vk')
       /\ UNCHANGED <<sk, sig, identity_xy, call>>

SkVerifyingKey ==
    /\ Running
    /\ IsOk(sk) /\ vk = NoValue
    /\ vk' = Ok(SigningKey_verifying_key(sk.val))
    /\ out' = Called("SigningKey::verifying_key", <<sk.val>>, vk')
    /\ UNCHANGED <<sk, sig, identity_xy, call>>

SigFromBytes ==
    /\ Running
    /\ sk = NoValue /\ IsOk(vk) /\ sig = NoValue
    /\ \E bytes \in SignatureInputs :
       /\ sig' = Signature_from_bytes(bytes)
       /\ out' = Called("Signature::from_bytes", <<bytes>>, sig')
       /\ UNCHANGED <<sk, vk, identity_xy, call>>

Sign ==
    /\ Running
    /\ IsOk(sk) /\ sig = NoValue
    /\ \E msg_digest \in Digests, aux_rand \in AuxRands, debug \in BOOLEAN :
       /\ sig' = SigningKey_try_sign_raw_digest(sk.val, msg_digest, aux_rand, debug)
       /\ out' = Called("SigningKey::try_sign_raw_digest",
                     <<sk.val, msg_digest, aux_rand, debug>>, sig')
    /\ UNCHANGED <<sk, vk, identity_xy, call>>

Verify ==
    /\ Running
    /\ IsOk(vk) /\ IsOk(sig)
    /\ \E msg_digest \in Digests :
       /\ out' = Called("VerifyingKey::verify_raw_digest", <<vk.val, msg_digest, sig.val>>,
                     VerifyingKey_verify_raw_digest(vk.val, msg_digest, sig.val))
    /\ UNCHANGED <<sk, vk, sig, identity_xy, call>>

\* serialize what is held and parse the bytes again
SkReparse ==
    /\ Running
    /\ IsOk(sk)
    /\ out' = Called("SigningKey::to_bytes", <<sk.val>>,
                     SigningKey_from_bytes(SigningKey_to_bytes(sk.val)))
    /\ UNCHANGED <<sk, vk, sig, identity_xy, call>>

VkReparse ==
    /\ Running
    /\ IsOk(vk)
    /\ out' = Called("VerifyingKey::to_bytes", <<vk.val>>,
                     VerifyingKey_from_bytes(VerifyingKey_to_bytes(vk.val)))
    /\ UNCHANGED <<sk, vk, sig, identity_xy, call>>

SigReparse ==
    /\ Running
    /\ IsOk(sig)
    /\ out' = Called("Signature::as_bytes", <<sig.val>>,
                     Signature_from_bytes(Signature_as_bytes(sig.val)))
    /\ UNCHANGED <<sk, vk, sig, identity_xy, call>>

Next ==
    \/ SkFromBytes
    \/ SkRandom
    \/ VkFromBytes
    \/ SkVerifyingKey
    \/ SigFromBytes
    \/ Sign
    \/ Verify
    \/ SkReparse
    \/ VkReparse
    \/ SigReparse

Spec == Init /\ [][Next]_vars

---------------------------------------------------------------------------
(* A verifying session over a backend with any convention for the          *)
(* coordinates of the point at infinity.                                   *)

InitAnyIdentity ==
    /\ InitCommon
    /\ identity_xy \in IdentityConventions

NextAnyIdentity ==
    \/ VkFromBytes
    \/ SigFromBytes
    \/ Verify

SpecAnyIdentity == InitAnyIdentity /\ [][NextAnyIdentity]_vars

---------------------------------------------------------------------------
(* Two threads share one signing key (&self) and each runs                 *)
(* try_sign_raw_digest statement by statement, interleaved with each other *)
(* and with verify and parse calls of the program.                         *)

InitConc ==
    /\ \E bytes \in FieldBytes :
          /\ IsOk(SigningKey_from_bytes(bytes))
          /\ sk = SigningKey_from_bytes(bytes)
    /\ vk = Ok(SigningKey_verifying_key(sk.val))
    /\ sig = NoValue
    /\ out = Called("SigningKey::verifying_key", <<sk.val>>, vk)
    /\ call = [t \in Threads |-> Idle]
    /\ identity_xy = <<0, 0>>

Advance(t, pc, locals) ==
    /\ call' = [call EXCEPT ![t] = ([pc |-> pc] @@ locals) @@ call[t]]
    /\ UNCHANGED <<sk, vk, sig, out, identity_xy>>

SignBegin(t) ==
    /\ call[t].pc = "idle"
    /\ \E msg_digest \in ConcDigests, aux_rand \in ConcAuxRands, debug \in BOOLEAN :
          Advance(t, "aux", [msg_digest |-> msg_digest, aux_rand |-> aux_rand,
                             debug |-> debug])

SignAux(t) ==
    /\ call[t].pc = "aux"
    /\ Advance(t, "nonce_hash", [t |-> Sign_t(sk.val, call[t].aux_rand)])

SignNonceHash(t) ==
    /\ call[t].pc = "nonce_hash"
    /\ Advance(t, "nonce", [rand |-> Sign_rand(sk.val, call[t].t, call[t].msg_digest)])

\* the nonce step keeping the normalized nonce in the shared key
SignNonce_in_place(t) ==
    /\ call[t].pc = "nonce"
    /\ LET nonce == SigningKey_raw_from_bytes(call[t].rand)
       IN  IF ~IsOk(nonce)
           THEN Advance(t, "done", [res |-> Err])
           ELSE /\ call' = [call EXCEPT ![t] =
                               [pc |-> "challenge", secret_key |-> nonce.val[1],
                                verifying_point |-> nonce.val[2]] @@ call[t]]
                /\ sk' = Ok([sk.val EXCEPT !.secret_key = nonce.val[1]])
                /\ UNCHANGED <<vk, sig, out, identity_xy>>

SignNonce(t) ==
    /\ call[t].pc = "nonce"
    /\ LET nonce == SigningKey_raw_from_bytes(call[t].rand)
       IN  IF ~IsOk(nonce)
           THEN Advance(t, "done", [res |-> Err])
           ELSE Advance(t, "challenge", [secret_key |-> nonce.val[1],
                                         verifying_point |-> nonce.val[2]])

SignChallenge(t) ==
    /\ call[t].pc = "challenge"
    /\ LET r == Sign_r(call[t].verifying_point)
       IN  Advance(t, "response", [r |-> r, e |-> Sign_e(sk.val, r, call[t].msg_digest)])

SignResponse(t) ==
    /\ call[t].pc = "response"
    /\ LET s == Sign_s(sk.val, call[t].secret_key, call[t].e)
       IN  IF ~IsSome(s)
           THEN Advance(t, "done", [res |-> Err])
           ELSE Advance(t, "return", [sig |-> Sign_sig(call[t].r, s.val)])

SignReturn(t) ==
    /\ call[t].pc = "return"
    /\ Advance(t, "done", [res |-> Sign_return(sk.val, call[t].msg_digest,
                                               call[t].sig, call[t].debug)])

\* the program verifies a returned signature while the other call runs
ConcVerify(t) ==
    /\ call[t].pc = "done" /\ IsOk(call[t].res)
    /\ out' = Called("VerifyingKey::verify_raw_digest",
                     <<vk.val, call[t].msg_digest, call[t].res.val>>,
                     VerifyingKey_verify_raw_digest(vk.val, call[t].msg_digest,
                                                    call[t].res.val))
    /\ UNCHANGED <<sk, vk, sig, identity_xy, call>>

NextConc ==
    \/ \E t \in Threads : SignBegin(t)
    \/ \E t \in Threads : SignAux(t)
    \/ \E t \in Threads : SignNonceHash(t)
    \/ \E t \in Threads : SignNonce(t)
    \/ \E t \in Threads : SignChallenge(t)
    \/ \E t \in Threads : SignResponse(t)
    \/ \E t \in Threads : SignReturn(t)
    \/ \E t \in Threads : ConcVerify(t)
    \/ SkReparse
    \/ VkReparse

SpecConc == InitConc /\ [][NextConc]_vars

---------------------------------------------------------------------------
(* What the claims compare the program with: BIP340 stated on the group,   *)
(* with canonical residues.                                                *)

IsSignCall == out.op = "SigningKey::try_sign_raw_digest"
IsVerifyCall == out.op = "VerifyingKey::verify_raw_digest"

\* y(d * G) is even
HasEvenY(d) == PointMul(GENERATOR, d).y % 2 = 0

\* e = int(tagged("BIP0340/challenge", r_be || x(P)_be || m)) mod n
Bip340Challenge(r, px, m) ==
    BeInt(Sha256_finalize(
        Sha256_update(tagged_hash(CHALLENGE_TAG),
                      ToBe(r, FieldLen) \o ToBe(px, FieldLen) \o m))) % N

\* R = s * G + (-e) * P of a key, a digest and a signature
Bip340R(key, m, sg) ==
    LET Pk == [x |-> key.inner.x % P, y |-> key.inner.y % P, inf |-> FALSE]
        e == Bip340Challenge(sg.r, Pk.x, m)
    IN  PointAdd(PointMul(GENERATOR, sg.s), PointMul(Pk, (N - e) % N))

Bip340Accepts(key, m, sg) ==
    LET R == Bip340R(key, m, sg)
    IN  ~R.inf /\ R.y % 2 = 0 /\ R.x = sg.r

---------------------------------------------------------------------------
\* C1: whenever try_sign_raw_digest(d, m, a) returns a signature, the
\* verifying key of d verifies it for m; the release build (no self-check)
\* returns exactly what the debug build returns, and a Verify call of the
\* program on a signature the signer returned for that digest returns Ok.
SignedVerifies ==
    /\ IsSignCall =>
          LET self == out.args[1]
              m == out.args[2]
              release == SigningKey_try_sign_raw_digest(self, m, out.args[3], FALSE)
          IN  /\ out.res = release
              /\ IsOk(release) =>
                    /\ Bip340Accepts(SigningKey_verifying_key(self), m, release.val)
                    /\ IsOk(VerifyingKey_verify_raw_digest(
                                SigningKey_verifying_key(self), m, release.val))
    /\ (IsVerifyCall /\ IsOk(sk)
          /\ \E a \in AuxRands :
                sig = SigningKey_try_sign_raw_digest(sk.val, out.args[2], a, FALSE))
       => IsOk(out.res)

\* a release-build signature was returned and the program verified it
SignedVerifiesWitness ==
    /\ IsVerifyCall /\ IsOk(sk) /\ IsOk(out.res)
    /\ \E a \in AuxRands :
          sig = SigningKey_try_sign_raw_digest(sk.val, out.args[2], a, FALSE)

---------------------------------------------------------------------------
ValidScalarBytes(b) == Len(b) = FieldLen /\ BeInt(b) > 0 /\ BeInt(b) < N

EvenYKey(key) ==
    LET D == PointMul(GENERATOR, key.secret_key)
        A == key.verifying_key.inner
    IN  /\ key.secret_key \in 1 .. (N - 1)
        /\ ~D.inf /\ D.y % 2 = 0
        /\ A.infinity = 0 /\ A.x % P = D.x /\ A.y % P = D.y

\* C2: SigningKey::from_bytes(b) succeeds iff b is FieldLen bytes encoding
\* d' with 0 < d' < n; then the secret is d' if y(d'G) is even and n - d'
\* otherwise, the cached verifying key is d * G, not infinity, with even Y,
\* and serializes to x(d'G).  Every SigningKey held has a non-zero scalar
\* whose public point has even Y.
SigningKeyParse ==
    /\ out.op = "SigningKey::from_bytes" =>
          LET b == out.args[1]
          IN  /\ IsOk(out.res) <=> ValidScalarBytes(b)
              /\ ~ValidScalarBytes(b) => out.res = Err
              /\ ValidScalarBytes(b) =>
                    LET d1 == BeInt(b)
                        key == out.res.val
                    IN  /\ key.secret_key = IF HasEvenY(d1) THEN d1 ELSE N - d1
                        /\ EvenYKey(key)
                        /\ VerifyingKey_to_bytes(key.verifying_key)
                              = ToBe(PointMul(GENERATOR, d1).x, FieldLen)
    /\ IsOk(sk) => EvenYKey(sk.val)

\* a key was parsed from bytes whose point has odd Y, so the secret was negated
SigningKeyParseWitness ==
    /\ out.op = "SigningKey::from_bytes"
    /\ IsOk(out.res)
    /\ ~HasEvenY(BeInt(out.args[1]))
    /\ sk = out.res

---------------------------------------------------------------------------
ValidSignatureBytes(b) ==
    /\ Len(b) = SigLen
    /\ BeInt(SubSeq(b, 1, FieldLen)) > 0
    /\ BeInt(SubSeq(b, 1, FieldLen)) < P
    /\ BeInt(SubSeq(b, FieldLen + 1, SigLen)) > 0
    /\ BeInt(SubSeq(b, FieldLen + 1, SigLen)) < N

\* C3: Signature::from_bytes(b) succeeds iff b has SigLen bytes, its first
\* half r satisfies 0 < r < p and its second half s satisfies 0 < s < n;
\* then the signature keeps b verbatim and r, s are the decoded values.
\* Every parsed Signature has r # 0, r < p, s # 0, s < n.
SignatureParse ==
    /\ out.op = "Signature::from_bytes" =>
          LET b == out.args[1]
          IN  /\ IsOk(out.res) <=> ValidSignatureBytes(b)
              /\ ~ValidSignatureBytes(b) => out.res = Err
              /\ ValidSignatureBytes(b) =>
                    /\ Signature_as_bytes(out.res.val) = b
                    /\ out.res.val.r = BeInt(SubSeq(b, 1, FieldLen))
                    /\ out.res.val.s = BeInt(SubSeq(b, FieldLen + 1, SigLen))
    /\ (IsOk(sig) /\ sk = NoValue) =>
          /\ sig.val.r # 0 /\ sig.val.r < P
          /\ sig.val.s # 0 /\ sig.val.s < N

\* a signature was parsed whose r is at least n (and below p)
SignatureParseWitness ==
    /\ out.op = "Signature::from_bytes"
    /\ IsOk(out.res)
    /\ out.res.val.r >= N
    /\ sig = out.res

---------------------------------------------------------------------------
IsCurveX(x) == \E y \in 0 .. (P - 1) : OnCurve(x, y)

\* C4: VerifyingKey::from_bytes(b) on FieldLen bytes succeeds iff x = int(b)
\* is below p and is the X of a curve point; then the key is the one affine
\* point with that X and even Y, on the curve and not infinity.
VerifyingKeyParse ==
    /\ (out.op = "VerifyingKey::from_bytes" /\ Len(out.args[1]) = FieldLen) =>
          LET x == BeInt(out.args[1])
          IN  /\ IsOk(out.res) <=> (x < P /\ IsCurveX(x))
              /\ ~(x < P /\ IsCurveX(x)) => out.res = Err
              /\ IsOk(out.res) =>
                    LET A == out.res.val.inner
                    IN  /\ A.infinity = 0
                        /\ A.x = x
                        /\ A.y \in 0 .. (P - 1)
                        /\ OnCurve(A.x, A.y)
                        /\ A.y % 2 = 0
                        /\ \A y \in 0 .. (P - 1) :
                              (OnCurve(x, y) /\ y % 2 = 0) => y = A.y
    /\ (IsOk(vk) /\ sk = NoValue) =>
          /\ vk.val.inner.infinity = 0
          /\ OnCurve(vk.val.inner.x % P, vk.val.inner.y % P)
          /\ (vk.val.inner.y % P) % 2 = 0

\* a verifying key was parsed from an X that is at least n
VerifyingKeyParseWitness ==
    /\ out.op = "VerifyingKey::from_bytes"
    /\ IsOk(out.res)
    /\ vk = out.res
    /\ BeInt(out.args[1]) >= N

---------------------------------------------------------------------------
\* C5: verify_raw_digest returns Ok iff, with e the challenge of (r, x(P), m)
\* reduced mod n and R = s * G + (-e) * P, R is not the point at infinity,
\* y(R) is even and x(R) = r; otherwise it returns the error.
VerifyAccepts ==
    IsVerifyCall =>
        LET accepts == Bip340Accepts(out.args[1], out.args[2], out.args[3])
        IN  /\ IsOk(out.res) <=> accepts
            /\ ~accepts => out.res = Err

\* a parsed signature was rejected only for the odd Y of R
VerifyAcceptsWitness ==
    /\ IsVerifyCall
    /\ sk = NoValue
    /\ out.res = Err
    /\ LET R == Bip340R(out.args[1], out.args[2], out.args[3])
       IN  ~R.inf /\ R.x = out.args[3].r /\ R.y % 2 = 1

---------------------------------------------------------------------------
\* C6: if s * G + (-e) * P is the point at infinity, verify_raw_digest
\* rejects, whatever coordinates the backend gives the point at infinity.
InfinityRejected ==
    (IsVerifyCall /\ Bip340R(out.args[1], out.args[2], out.args[3]).inf)
        => out.res = Err

---------------------------------------------------------------------------
Bip340NonceHash(self, m, a) == BeInt(Sign_rand(self, Sign_t(self, a), m))

Bip340Response(self, m, a) ==
    LET k1 == Bip340NonceHash(self, m, a) % N
        k == IF HasEvenY(k1) THEN k1 ELSE N - k1
        px == PointMul(GENERATOR, self.secret_key).x
        e == Bip340Challenge(PointMul(GENERATOR, k).x, px, m)
    IN  (k + e * self.secret_key) % N

\* C7: try_sign_raw_digest returns the error only when the nonce hash is
\* zero modulo n or the response s = (k + e * d) mod n is zero, k being the
\* even-Y-normalized nonce of the hash reduced modulo n.
SignFailsOnlyOnZero ==
    (IsSignCall /\ out.res = Err) =>
        \/ Bip340NonceHash(out.args[1], out.args[2], out.args[3]) % N = 0
        \/ Bip340Response(out.args[1], out.args[2], out.args[3]) = 0

---------------------------------------------------------------------------
\* C8: serializing a held signing key, verifying key (parsed or derived)
\* or signature (parsed or signed) and parsing the bytes succeeds and gives
\* an equal value.
RoundTrip ==
    /\ out.op = "SigningKey::to_bytes" =>
          /\ IsOk(out.res)
          /\ out.res.val.secret_key = out.args[1].secret_key
          /\ VerifyingKey_eq(out.res.val.verifying_key, out.args[1].verifying_key)
    /\ out.op = "VerifyingKey::to_bytes" =>
          /\ IsOk(out.res)
          /\ VerifyingKey_eq(out.res.val, out.args[1])
    /\ out.op = "Signature::as_bytes" =>
          /\ IsOk(out.res)
          /\ Signature_eq(out.res.val, out.args[1])
          /\ out.res.val.r = out.args[1].r
          /\ out.res.val.s = out.args[1].s

\* a signature returned by the signer was serialized and parsed again
RoundTripWitness ==
    /\ out.op = "Signature::as_bytes"
    /\ IsOk(sk)
    /\ IsOk(out.res)
    /\ out.args[1] = sig.val

---------------------------------------------------------------------------
\* C9: every parse operation returns Err on input of the wrong length.
WrongLengthIsErr ==
    /\ (out.op = "Signature::from_bytes" /\ Len(out.args[1]) # SigLen)
          => out.res = Err
    /\ (out.op \in {"SigningKey::from_bytes", "VerifyingKey::from_bytes"}
          /\ Len(out.args[1]) # FieldLen)
          => out.res = Err

---------------------------------------------------------------------------
Done(t) == call[t].pc = "done"

SameOutcome(r1, r2) ==
    IF IsOk(r1) /\ IsOk(r2) THEN Signature_as_bytes(r1.val) = Signature_as_bytes(r2.val)
    ELSE r1 = Err /\ r2 = Err

CallsAgree ==
    /\ \A t \in Threads :
          Done(t) =>
              call[t].res = SigningKey_try_sign_raw_digest(
                                sk.val, call[t].msg_digest, call[t].aux_rand, call[t].debug)
    /\ \A t1, t2 \in Threads :
          (Done(t1) /\ Done(t2)
              /\ call[t1].msg_digest = call[t2].msg_digest
              /\ call[t1].aux_rand = call[t2].aux_rand)
          => SameOutcome(call[t1].res, call[t2].res)

NothingModified ==
    /\ sk' = sk
    /\ vk' = vk
    /\ \A t \in Threads : Done(t) => call'[t] = call[t]

\* C10: try_sign_raw_digest is a function of (key, m, a): every finished
\* call, however interleaved, returned what the call run alone returns, two
\* finished calls on equal (m, a) returned the same bytes or both the error,
\* and no step changes the key, its verifying key or a returned result.
SignIsPure == []CallsAgree /\ [][NothingModified]_vars

\* both threads signed the same digest and aux, one in each build, and got a signature
SignIsPureWitness ==
    /\ Done(1) /\ Done(2)
    /\ call[1].msg_digest = call[2].msg_digest
    /\ call[1].aux_rand = call[2].aux_rand
    /\ call[1].debug # call[2].debug
    /\ IsOk(call[1].res) /\ IsOk(call[2].res)

---------------------------------------------------------------------------
\* tagged(tag, data) = SHA256(SHA256(tag) || SHA256(tag) || data)
Bip340Tagged(tag, data) ==
    Sha256_digest(Sha256_digest(tag) \o Sha256_digest(tag) \o data)

\* the BIP340 signing construction for secret d, digest m and aux a
Bip340Sign(d, m, a) ==
    LET px == PointMul(GENERATOR, d).x
        t == [i \in 1 .. FieldLen |->
                 BitXor(ToBe(d, FieldLen)[i], Bip340Tagged(AUX_TAG, a)[i])]
        k1 == BeInt(Bip340Tagged(NONCE_TAG, t \o ToBe(px, FieldLen) \o m)) % N
        k == IF HasEvenY(k1) THEN k1 ELSE N - k1
        R == PointMul(GENERATOR, k)
        e == BeInt(Bip340Tagged(CHALLENGE_TAG,
                                ToBe(R.x, FieldLen) \o ToBe(px, FieldLen) \o m)) % N
    IN  [k1 |-> k1, k |-> k, R |-> R, e |-> e, s |-> (k + e * d) % N]

\* C11: whenever try_sign_raw_digest(d, m, a) succeeds, the signature is the
\* BIP340 construction: t = d_bytes XOR tagged(aux, a), k the even-Y
\* normalized scalar of tagged(nonce, t || px || m), R = k * G with even Y,
\* e = int(tagged(challenge, x(R) || px || m)) mod n; the signature has
\* r = x(R) # 0, s = (k + e * d) mod n # 0 and bytes x(R)_be || s_be.
SignMatchesBip340 ==
    (IsSignCall /\ IsOk(out.res)) =>
        LET self == out.args[1]
            sg == out.res.val
            c == Bip340Sign(self.secret_key, out.args[2], out.args[3])
        IN  /\ c.k1 # 0
            /\ ~c.R.inf /\ c.R.y % 2 = 0
            /\ sg.r = c.R.x /\ sg.r # 0
            /\ sg.s = c.s /\ sg.s # 0
            /\ Len(Signature_as_bytes(sg)) = SigLen
            /\ Signature_as_bytes(sg) = ToBe(c.R.x, FieldLen) \o ToBe(c.s, FieldLen)

\* a release-build call signed with a nonce that had to be negated
SignMatchesBip340Witness ==
    /\ IsSignCall /\ IsOk(out.res) /\ ~out.args[4]
    /\ LET c == Bip340Sign(out.args[1].secret_key, out.args[2], out.args[3])
       IN  c.k1 # c.k /\ c.e # 0

=============================================================================
